---- MODULE Spec2Model ----
(***************************************************************************)
(* Model of the nsls2api synchronisation engine                            *)
(* (src/nsls2api/services/sync_service.py), of the PASS client function    *)
(* get_proposal (src/nsls2api/services/pass_service.py) and of the job     *)
(* endpoints (src/nsls2api/api/v1/jobs_api.py).                            *)
(*                                                                         *)
(* The MongoDB collections are sequences of documents in insertion order;  *)
(* a document's position is its _id.  find_one returns the first match,    *)
(* upsert sets the named fields of the match or inserts the on_insert      *)
(* document, Document.update refreshes the in-memory document from the     *)
(* store and Document.save writes the in-memory document back.             *)
(*                                                                         *)
(* The remote PASS system, the BNL people service and the source of a      *)
(* cycle's proposals are the environment.  What PASS holds are variables   *)
(* that environment actions change; a PASS call that fails, and the list   *)
(* of a cycle's proposals, are inputs of the run.  PASS answers are the    *)
(* typed records that sync_service.py reads them as (PassCycle,            *)
(* PassProposal, PassSaf).  datetime.now() is the variable clock, which    *)
(* every workflow run advances by one.  The variable last records the      *)
(* last operation, its inputs and how it ended.                            *)
(*                                                                         *)
(* There is one specification per component: SpecCycles (Cycle             *)
(* Reconciler), SpecTypes (Proposal Type Reconciler), SpecProposals        *)
(* (Proposal Reconciler), SpecLinker (Linker and Proposal Reconciler),     *)
(* SpecMapping (facility cycle-information workflow), SpecWorkflow         *)
(* (proposals-for-cycle workflow), SpecReconcilers (Cycle and Proposal     *)
(* Type Reconciler over lists that become empty) and SpecJobs (job         *)
(* endpoints and dispatcher).  In these a run is one step.  SpecLinkerRace *)
(* and                                                                     *)
(* SpecCycleRace take a job apart into its awaits, one step each, with     *)
(* the job's position and in-memory documents in the variable tasks, so    *)
(* that other jobs run in between.                                         *)
(* The services that sync_service.py imports and that are not among the    *)
(* sources (facility_service, beamline_service, bnlpeople_service,         *)
(* proposal_service, background_service) are modelled by what their        *)
(* callers expect of them.                                                 *)
(***************************************************************************)
EXTENDS Integers, Sequences, FiniteSets, TLC

VARIABLES
    cycleStore,      \* the Cycle collection
    proposalStore,   \* the Proposal collection
    jobs,            \* the BackgroundJob collection, by ObjectId
    clock,           \* datetime.now()
    passCycles,      \* what PASS GetCycles returns now
    passAllocated,   \* what PASS returns as allocated to each cycle now
    passProposal,    \* what PASS GetProposal yields for each proposal id now
    passSafs,        \* what PASS GetSAFsByProposal returns for each id now
    peopleDown,      \* BNL ids whose username lookup raises HTTPStatusError
    typeStore,       \* the ProposalType collection
    passTypes,       \* what PASS GetProposalTypes returns now
    tasks,           \* the jobs under way: position and in-memory documents
    last             \* the last operation: its inputs and its outcome

vars == <<cycleStore, proposalStore, jobs, clock, passCycles, passAllocated,
          passProposal, passSafs, peopleDown, typeStore, passTypes, tasks,
          last>>

cycleWorld == <<passCycles, passAllocated>>
proposalWorld == <<passProposal, passSafs, peopleDown>>
typeWorld == <<typeStore, passTypes>>

----------------------------------------------------------------------------
(* Bounds *)

MaxClock == 3
MaxCycleRuns == 2
MaxRemoteCycles == 2
MaxAllocated == 1
MaxResources == 2
MaxSafs == 1
MaxExperimenters == 2
MaxLinked == 2
MaxMapped == 1
MaxRaceList == 1
MaxCommissioning == 1
MaxWorkflowRuns == 1
MaxRemoteTypes == 3
MaxTypeRuns == 2

----------------------------------------------------------------------------
(* Values *)

\* Python's None where an object is expected, and where a string is
None == [none |-> TRUE]
NoneStr == "None"
\* a last_updated that was never set
NoTime == 0

CycleNames == {"2024-1", "2024-2"}
ProposalIds == {1, 2}

\* str() and int() on the integers the model uses
IntStr == (1 :> "1" @@ 2 :> "2" @@ 11 :> "11" @@ 12 :> "12" @@ 2024 :> "2024"
           @@ 300005 :> "300005" @@ 300006 :> "300006" @@ 501 :> "501")

str(n) == IntStr[n]

int(s) == CHOOSE n \in DOMAIN IntStr : IntStr[n] = s

ProposalIdStrs == {str(p) : p \in ProposalIds}

Titles == {"T1", "T2"}

SeqsUpTo(S, n) == UNION {[1..k -> S] : k \in 0..n}

Range(s) == {s[i] : i \in DOMAIN s}

\* AddToSet on an array field: append unless present
AddToSet(arr, v) == IF v \in Range(arr) THEN arr ELSE Append(arr, v)

----------------------------------------------------------------------------
(* Identity Resolver: facilities *)

\* PASS User_Facility_ID -> local facility; 99 is known to no facility
PassFacilityIds == {1, 2, 99}

Facilities == (1 :> [name |-> "NSLS-II", facility_id |-> "nsls2"]
               @@ 2 :> [name |-> "LBMS", facility_id |-> "lbms"])

FacilityNames == {"nsls2", "lbms"}

facility_by_pass_id(pass_user_facility_id) ==
    IF pass_user_facility_id \in DOMAIN Facilities
    THEN Facilities[pass_user_facility_id]
    ELSE None

\* the positions of the remote cycles whose facility does not resolve
Unresolvable(pass_cycles) ==
    {k \in DOMAIN pass_cycles :
        facility_by_pass_id(pass_cycles[k].User_Facility_ID) = None}

----------------------------------------------------------------------------
(* Cycle Reconciler *)

CyclePassId == ("2024-1" :> 11 @@ "2024-2" :> 12)

\* a PassCycle record as PASS returns it
PassCycle(name, active, facId) ==
    [Name |-> name, Active |-> active, User_Facility_ID |-> facId,
     Year |-> 2024, Start_Date |-> "start", End_Date |-> "end",
     Description |-> "desc", ID |-> CyclePassId[name]]

\* the records PASS may hold: per cycle name an active one of facility 1, an
\* inactive one of facility 2 and an active one of an unknown facility
PassCycleRecords ==
    {PassCycle(n, TRUE, 1) : n \in CycleNames}
    \cup {PassCycle(n, FALSE, 2) : n \in CycleNames}
    \cup {PassCycle(n, TRUE, 99) : n \in CycleNames}

\* the Cycle(...) document built at lines 44-53; proposals and last_updated
\* take the model's defaults
NewCycle(pass_cycle, facility) ==
    [name |-> pass_cycle.Name,
     accepting_proposals |-> pass_cycle.Active,
     facility |-> facility.facility_id,
     year |-> str(pass_cycle.Year),
     start_date |-> pass_cycle.Start_Date,
     end_date |-> pass_cycle.End_Date,
     pass_description |-> pass_cycle.Description,
     pass_id |-> str(pass_cycle.ID),
     proposals |-> <<>>,
     last_updated |-> NoTime]

\* a faulty lookup that finds no document
CycleFindOne_Miss(store, name) == 0

\* Cycle.find_one(Cycle.name == name): position of the first match, 0 if none
CycleFindOne(store, name) ==
    IF \E i \in DOMAIN store : store[i].name = name
    THEN CHOOSE i \in DOMAIN store :
            /\ store[i].name = name
            /\ \A j \in 1..(i-1) : store[j].name # name
    ELSE 0

\* a faulty upsert: the found document is replaced by the on_insert document
CycleUpsert_Replace(store, cycle, now) ==
    LET i == CycleFindOne(store, cycle.name) IN
    IF i = 0
    THEN Append(store, cycle)
    ELSE [store EXCEPT ![i] = [cycle EXCEPT !.last_updated = now]]

\* .upsert(Set({...}), on_insert=cycle): the store afterwards
CycleUpsert(store, cycle, now) ==
    LET i == CycleFindOne(store, cycle.name) IN
    IF i = 0
    THEN Append(store, cycle)
    ELSE [store EXCEPT ![i] =
            [@ EXCEPT !.accepting_proposals = cycle.accepting_proposals,
                      !.facility = cycle.facility,
                      !.pass_description = cycle.pass_description,
                      !.pass_id = cycle.pass_id,
                      !.year = cycle.year,
                      !.start_date = cycle.start_date,
                      !.end_date = cycle.end_date,
                      !.last_updated = now]]

\* the position of the document that upsert returns (NEW_DOCUMENT)
CycleUpsertId(store, cycle) ==
    LET i == CycleFindOne(store, cycle.name) IN
    IF i = 0 THEN Len(store) + 1 ELSE i

\* a faulty loop: the proposal id is pushed, not added as to a set
RECURSIVE CycleAddProposals_Push(_, _, _, _, _)
CycleAddProposals_Push(store, id, proposals_list, k, now) ==
    IF k > Len(proposals_list) THEN store
    ELSE LET added == [store EXCEPT ![id].proposals =
                          Append(@, str(proposals_list[k]))]
             updated_cycle == [added[id] EXCEPT !.last_updated = now]
             saved == [added EXCEPT ![id] = updated_cycle]
         IN CycleAddProposals_Push(saved, id, proposals_list, k + 1, now)

\* lines 74-79 for the allocated proposals from position k on: update with
\* AddToSet (which refreshes the in-memory document from the store), set
\* last_updated, save the in-memory document
RECURSIVE CycleAddProposals(_, _, _, _, _)
CycleAddProposals(store, id, proposals_list, k, now) ==
    IF k > Len(proposals_list) THEN store
    ELSE LET added == [store EXCEPT ![id].proposals =
                          AddToSet(@, str(proposals_list[k]))]
             updated_cycle == [added[id] EXCEPT !.last_updated = now]
             saved == [added EXCEPT ![id] = updated_cycle]
         IN CycleAddProposals(saved, id, proposals_list, k + 1, now)

\* a faulty loop: a cycle whose facility does not resolve is skipped and the
\* loop goes on
RECURSIVE CycleLoop_Skip(_, _, _, _, _)
CycleLoop_Skip(store, pass_cycles, allocated, k, now) ==
    IF k > Len(pass_cycles) THEN [store |-> store, outcome |-> "ok", at |-> k]
    ELSE LET pass_cycle == pass_cycles[k]
             facility == facility_by_pass_id(pass_cycle.User_Facility_ID)
         IN IF facility = None
            THEN CycleLoop_Skip(store, pass_cycles, allocated, k + 1, now)
            ELSE LET cycle == NewCycle(pass_cycle, facility)
                     id == CycleUpsertId(store, cycle)
                     upserted == CycleUpsert(store, cycle, now)
                     linked == CycleAddProposals(upserted, id,
                                                 allocated[cycle.name], 1, now)
                 IN CycleLoop_Skip(linked, pass_cycles, allocated, k + 1, now)

\* lines 37-79 for the remote cycles from position k on.  The result is the
\* store and how the loop ended: an unresolvable facility raises at line 42,
\* before the upsert of that cycle
RECURSIVE CycleLoop(_, _, _, _, _)
CycleLoop(store, pass_cycles, allocated, k, now) ==
    IF k > Len(pass_cycles) THEN [store |-> store, outcome |-> "ok", at |-> k]
    ELSE LET pass_cycle == pass_cycles[k]
             facility == facility_by_pass_id(pass_cycle.User_Facility_ID)
         IN IF facility = None
            THEN [store |-> store, outcome |-> "raised", at |-> k]
            ELSE LET cycle == NewCycle(pass_cycle, facility)
                     id == CycleUpsertId(store, cycle)
                     upserted == CycleUpsert(store, cycle, now)
                     linked == CycleAddProposals(upserted, id,
                                                 allocated[cycle.name], 1, now)
                 IN CycleLoop(linked, pass_cycles, allocated, k + 1, now)

\* worker_synchronize_cycles_from_pass.  A PASS failure (pass_fails) raises
\* at line 35.  After the loop, line 83 reads the loop variable facility,
\* which is unbound when the list was empty: the run raises then, too.
worker_synchronize_cycles_from_pass(facility_name, pass_fails) ==
    /\ clock < MaxCycleRuns
    /\ clock' = clock + 1
    /\ LET now == clock + 1
           run == IF pass_fails
                  THEN [store |-> cycleStore, outcome |-> "raised", at |-> 0]
                  ELSE CycleLoop(cycleStore, passCycles, passAllocated, 1, now)
           outcome == IF run.outcome = "ok" /\ passCycles = <<>>
                      THEN "raised" ELSE run.outcome
       IN /\ cycleStore' = run.store
          /\ last' = [op |-> "synchronize_cycles", outcome |-> outcome,
                      at |-> run.at,
                      repeat |-> /\ last.op = "synchronize_cycles"
                                 /\ last.at # 0
                                 /\ ~pass_fails]
    /\ UNCHANGED <<proposalStore, jobs, cycleWorld, proposalWorld, typeWorld,
                   tasks>>

\* the environment: PASS moves one of its cycles to the other facility and
\* flips its active flag
PassCyclesChange ==
    /\ \E k \in DOMAIN passCycles, r \in PassCycleRecords :
          /\ r.Name = passCycles[k].Name
          /\ r # passCycles[k]
          /\ facility_by_pass_id(r.User_Facility_ID) # None
          /\ facility_by_pass_id(passCycles[k].User_Facility_ID) # None
          /\ passCycles' = [passCycles EXCEPT ![k] = r]
    /\ last' = [op |-> "pass_changes"]
    /\ UNCHANGED <<cycleStore, proposalStore, jobs, clock, passAllocated,
                   proposalWorld, typeWorld, tasks>>

\* what PASS may report as allocated to a cycle: each proposal once, in the
\* order of the ids
AllocationLists ==
    {l \in SeqsUpTo(ProposalIds, MaxAllocated) :
        \A i, j \in DOMAIN l : i < j => l[i] < l[j]}

\* the environment: PASS deallocates a proposal from a cycle
PassDeallocates ==
    /\ \E c \in CycleNames :
          \E k \in DOMAIN passAllocated[c] :
             passAllocated' =
                [passAllocated EXCEPT ![c] =
                    SubSeq(@, 1, k - 1) \o SubSeq(@, k + 1, Len(@))]
    /\ last' = [op |-> "pass_changes"]
    /\ UNCHANGED <<cycleStore, proposalStore, jobs, clock, passCycles,
                   proposalWorld, typeWorld, tasks>>

----------------------------------------------------------------------------
(* Proposal Type Reconciler *)

PassTypeIds == {300005, 300006}

PassTypeCode == (300005 :> "C" @@ 300006 :> "GU")

PassTypeDescription == (300005 :> "Commissioning" @@ 300006 :> "General User")

\* the records PASS may hold: per type id one of facility 1, one of facility
\* 2 and one of an unknown facility
PassTypeRecords ==
    {[ID |-> t, Code |-> PassTypeCode[t], User_Facility_ID |-> f,
      Description |-> PassTypeDescription[t]] :
        t \in PassTypeIds, f \in PassFacilityIds}

\* the ProposalType(...) document built at lines 108-114; last_updated takes
\* the model's default
NewProposalType(pass_proposal_type, facility) ==
    [code |-> pass_proposal_type.Code,
     facility_id |-> facility.facility_id,
     pass_id |-> str(pass_proposal_type.ID),
     description |-> pass_proposal_type.Description,
     pass_description |-> pass_proposal_type.Description,
     last_updated |-> NoTime]

\* ProposalType.find_one(ProposalType.pass_id == pass_id): position of the
\* first match, 0 if none
ProposalTypeFindOne(store, pass_id) ==
    IF \E i \in DOMAIN store : store[i].pass_id = pass_id
    THEN CHOOSE i \in DOMAIN store :
            /\ store[i].pass_id = pass_id
            /\ \A j \in 1..(i-1) : store[j].pass_id # pass_id
    ELSE 0

\* lines 116-130: .upsert(Set({...}), on_insert=proposal_type)
ProposalTypeUpsert(store, proposal_type, now) ==
    LET i == ProposalTypeFindOne(store, proposal_type.pass_id) IN
    IF i = 0
    THEN Append(store, proposal_type)
    ELSE [store EXCEPT ![i] =
            [@ EXCEPT !.code = proposal_type.code,
                      !.pass_description = proposal_type.pass_description,
                      !.description = proposal_type.description,
                      !.facility_id = proposal_type.facility_id,
                      !.last_updated = now]]

\* lines 103-130 for the remote types from position k on.  The result is
\* the store and how the loop ended: the facility is resolved with no
\* try/except around it, and line 110 reads facility.facility_id, so an
\* unresolvable facility raises there, before the upsert of that type
RECURSIVE ProposalTypeLoop(_, _, _, _)
ProposalTypeLoop(store, pass_proposal_types, k, now) ==
    IF k > Len(pass_proposal_types)
    THEN [store |-> store, outcome |-> "ok", at |-> k]
    ELSE LET pass_proposal_type == pass_proposal_types[k]
             facility == facility_by_pass_id(
                             pass_proposal_type.User_Facility_ID)
         IN IF facility = None
            THEN [store |-> store, outcome |-> "raised", at |-> k]
            ELSE LET proposal_type == NewProposalType(pass_proposal_type,
                                                      facility)
                 IN ProposalTypeLoop(
                        ProposalTypeUpsert(store, proposal_type, now),
                        pass_proposal_types, k + 1, now)

\* worker_synchronize_proposal_types_from_pass.  A PASS failure (pass_fails)
\* raises at line 101.  After the loop, lines 133 and 135 read response and
\* the loop variable facility, which are unbound when the list was empty:
\* the run raises then, too.
worker_synchronize_proposal_types_from_pass(facility_name, pass_fails) ==
    /\ clock < MaxTypeRuns
    /\ clock' = clock + 1
    /\ LET now == clock + 1
           run == IF pass_fails
                  THEN [store |-> typeStore, outcome |-> "raised", at |-> 0]
                  ELSE ProposalTypeLoop(typeStore, passTypes, 1, now)
           outcome == IF run.outcome = "ok" /\ passTypes = <<>>
                      THEN "raised" ELSE run.outcome
       IN /\ typeStore' = run.store
          /\ last' = [op |-> "synchronize_proposal_types",
                      outcome |-> outcome, at |-> run.at,
                      pass_fails |-> pass_fails]
    /\ UNCHANGED <<cycleStore, proposalStore, jobs, cycleWorld,
                   proposalWorld, passTypes, tasks>>

\* the environment: PASS comes to hold no cycle and no proposal type
PassEmpties ==
    /\ passCycles # <<>> \/ passTypes # <<>>
    /\ passCycles' = <<>>
    /\ passTypes' = <<>>
    /\ last' = [op |-> "pass_changes"]
    /\ UNCHANGED <<cycleStore, proposalStore, jobs, clock, passAllocated,
                   proposalWorld, typeStore, tasks>>

----------------------------------------------------------------------------
(* Identity Resolver: beamlines, people, data sessions *)

\* PASS resource id -> local beamline; 99 is known to no beamline
PassResourceIds == {10, 99}

Beamlines == (10 :> [name |-> "AMX"] @@ 11 :> [name |-> "FMX"])

beamline_by_pass_id(pass_id) ==
    IF pass_id \in DOMAIN Beamlines THEN Beamlines[pass_id] ELSE None

\* BNL ids are strings; "a1" and "A1" are one person's id in two spellings
BnlIds == {"a1", "A1", "b2"}

casefold(bnl_id) == IF bnl_id = "A1" THEN "a1" ELSE bnl_id

Usernames == ("a1" :> "alee" @@ "A1" :> "alee" @@ "b2" :> "bray")

\* bnlpeople_service.get_username_by_id: the username, or HTTPStatusError
HTTPStatusError == "HTTPStatusError"

get_username_by_id(bnl_id, down) ==
    IF bnl_id \in down THEN HTTPStatusError ELSE Usernames[bnl_id]

generate_data_session_for_proposal(proposal_id) ==
    (1 :> "pass-1" @@ 2 :> "pass-2")[proposal_id]

----------------------------------------------------------------------------
(* Proposal Reconciler *)

\* pass_service.get_proposal: the record, or None when the call or the
\* validation of its answer fails
get_proposal(proposal_id, pass_fails) ==
    IF pass_fails THEN None ELSE passProposal[proposal_id]

\* a faulty resolution: the loop ends at the first unresolved resource
RECURSIVE ResolveResources_Break(_, _)
ResolveResources_Break(resources, k) ==
    IF k > Len(resources) THEN <<>>
    ELSE LET beamline == beamline_by_pass_id(resources[k].ID)
         IN IF beamline # None
            THEN <<beamline.name>> \o ResolveResources_Break(resources, k + 1)
            ELSE <<>>

\* lines 155-158 and 167-170: the names of the beamlines the resources from
\* position k on resolve to, unresolved resources skipped
RECURSIVE ResolveResources(_, _)
ResolveResources(resources, k) ==
    IF k > Len(resources) THEN <<>>
    ELSE LET beamline == beamline_by_pass_id(resources[k].ID)
         IN IF beamline # None
            THEN <<beamline.name>> \o ResolveResources(resources, k + 1)
            ELSE ResolveResources(resources, k + 1)

\* lines 153-164: one SafetyForm per SAF from position k on
RECURSIVE SafList(_, _)
SafList(pass_saf_list, k) ==
    IF k > Len(pass_saf_list) THEN <<>>
    ELSE LET saf == pass_saf_list[k]
         IN <<[saf_id |-> str(saf.SAF_ID), status |-> saf.Status,
               instruments |-> ResolveResources(saf.Resources, 1)]>>
            \o SafList(pass_saf_list, k + 1)

\* lines 183-185: is this experimenter the PI
IsPI(pass_proposal, user) ==
    casefold(pass_proposal.PI.BNL_ID) = casefold(user.BNL_ID)

\* lines 175-201: the users built from the experimenters from position k on.
\* Without a PI every experimenter is skipped (line 181).  A failed
\* username lookup leaves the username None (lines 186-191).
RECURSIVE ExperimenterUsers(_, _, _)
ExperimenterUsers(pass_proposal, down, k) ==
    LET experimenters == pass_proposal.Experimenters IN
    IF k > Len(experimenters) THEN <<>>
    ELSE LET user == experimenters[k]
             looked_up == get_username_by_id(user.BNL_ID, down)
             bnl_username == IF looked_up = HTTPStatusError
                             THEN NoneStr ELSE looked_up
         IN IF pass_proposal.PI = None
            THEN ExperimenterUsers(pass_proposal, down, k + 1)
            ELSE <<[first_name |-> user.First_Name,
                    last_name |-> user.Last_Name,
                    email |-> user.Email,
                    bnl_id |-> user.BNL_ID,
                    username |-> bnl_username,
                    is_pi |-> IsPI(pass_proposal, user)]>>
                 \o ExperimenterUsers(pass_proposal, down, k + 1)

\* line 172 and 185 after the loop
PiFoundInExperimenters(pass_proposal) ==
    /\ pass_proposal.PI # None
    /\ \E k \in DOMAIN pass_proposal.Experimenters :
          IsPI(pass_proposal, pass_proposal.Experimenters[k])

\* a faulty test: the PI is added whether an experimenter matched or not
AddsPI_Always(pass_proposal) ==
    pass_proposal.PI # None

\* line 205: is the PI added explicitly
AddsPI(pass_proposal) ==
    pass_proposal.PI # None /\ ~PiFoundInExperimenters(pass_proposal)

\* a faulty PI entry: built without the PI mark
PiInfo_Unmarked(pass_proposal, bnl_username) ==
    [first_name |-> pass_proposal.PI.First_Name,
     last_name |-> pass_proposal.PI.Last_Name,
     email |-> pass_proposal.PI.Email,
     bnl_id |-> pass_proposal.PI.BNL_ID,
     username |-> bnl_username,
     is_pi |-> FALSE]

\* lines 209-216
PiInfo(pass_proposal, bnl_username) ==
    [first_name |-> pass_proposal.PI.First_Name,
     last_name |-> pass_proposal.PI.Last_Name,
     email |-> pass_proposal.PI.Email,
     bnl_id |-> pass_proposal.PI.BNL_ID,
     username |-> bnl_username,
     is_pi |-> TRUE]

\* lines 172-217: user_list when the function gets past line 208
UserList(pass_proposal, down) ==
    LET users == ExperimenterUsers(pass_proposal, down, 1)
    IN IF AddsPI(pass_proposal)
       THEN Append(users,
                   PiInfo(pass_proposal,
                          get_username_by_id(pass_proposal.PI.BNL_ID, down)))
       ELSE users

\* lines 206-208: the username lookup for the PI is outside any try
PiLookupRaises(pass_proposal, down) ==
    /\ AddsPI(pass_proposal)
    /\ get_username_by_id(pass_proposal.PI.BNL_ID, down) = HTTPStatusError

\* the Proposal(...) document built at lines 221-231; cycles takes the
\* model's default
NewProposal(pass_proposal, data_session, instruments, safs, users, now) ==
    [proposal_id |-> str(pass_proposal.Proposal_ID),
     title |-> pass_proposal.Title,
     data_session |-> data_session,
     pass_type_id |-> str(pass_proposal.Proposal_Type_ID),
     type |-> pass_proposal.Proposal_Type_Description,
     instruments |-> instruments,
     safs |-> safs,
     users |-> users,
     cycles |-> <<>>,
     last_updated |-> now]

\* Proposal.find_one(Proposal.proposal_id == id): position of the first
\* match, 0 if none
ProposalFindOne(store, proposal_id) ==
    IF \E i \in DOMAIN store : store[i].proposal_id = proposal_id
    THEN CHOOSE i \in DOMAIN store :
            /\ store[i].proposal_id = proposal_id
            /\ \A j \in 1..(i-1) : store[j].proposal_id # proposal_id
    ELSE 0

\* a faulty upsert: the found document is replaced by the on_insert document
ProposalUpsert_Replace(store, proposal_id, proposal) ==
    LET i == ProposalFindOne(store, str(proposal_id)) IN
    IF i = 0
    THEN Append(store, proposal)
    ELSE [store EXCEPT ![i] = proposal]

\* lines 233-248: .upsert(Set({...}), on_insert=proposal)
ProposalUpsert(store, proposal_id, proposal) ==
    LET i == ProposalFindOne(store, str(proposal_id)) IN
    IF i = 0
    THEN Append(store, proposal)
    ELSE [store EXCEPT ![i] =
            [@ EXCEPT !.title = proposal.title,
                      !.data_session = proposal.data_session,
                      !.pass_type_id = proposal.pass_type_id,
                      !.type = proposal.type,
                      !.instruments = proposal.instruments,
                      !.safs = proposal.safs,
                      !.users = proposal.users,
                      !.last_updated = proposal.last_updated]]

\* synchronize_proposal_from_pass: the store afterwards and the line that
\* raised, 0 if none.  get_proposal hands back None for a failed fetch, so
\* line 145 never raises and the loop over the SAFs runs; line 167 then
\* raises on pass_proposal.Resources.
synchronize_proposal_from_pass(store, proposal_id, pass_fails, now) ==
    LET pass_proposal == get_proposal(proposal_id, pass_fails)
        saf_list == SafList(passSafs[proposal_id], 1)
    IN IF pass_proposal = None
       THEN [store |-> store, raised |-> 167]
       ELSE IF PiLookupRaises(pass_proposal, peopleDown)
       THEN [store |-> store, raised |-> 206]
       ELSE LET beamline_list == ResolveResources(pass_proposal.Resources, 1)
                user_list == UserList(pass_proposal, peopleDown)
                data_session == generate_data_session_for_proposal(proposal_id)
                proposal == NewProposal(pass_proposal, data_session,
                                        beamline_list, saf_list, user_list, now)
            IN [store |-> ProposalUpsert(store, proposal_id, proposal),
                raised |-> 0]

\* worker_synchronize_proposal_from_pass
worker_synchronize_proposal_from_pass(proposal_id, pass_fails) ==
    /\ clock < MaxClock
    /\ clock' = clock + 1
    /\ LET run == synchronize_proposal_from_pass(proposalStore, proposal_id,
                                                 pass_fails, clock + 1)
       IN /\ proposalStore' = run.store
          /\ last' = [op |-> "synchronize_proposal",
                      proposal_id |-> proposal_id,
                      outcome |-> IF run.raised = 0 THEN "ok" ELSE "raised",
                      raised |-> run.raised,
                      existed |-> ProposalFindOne(proposalStore,
                                                  str(proposal_id)) # 0,
                      pass_fails |-> pass_fails,
                      surfaced |-> IF get_proposal(proposal_id, pass_fails)
                                      = None
                                   THEN "None" ELSE "record",
                      wrote |-> run.store # proposalStore]
    /\ UNCHANGED <<cycleStore, jobs, cycleWorld, proposalWorld, typeWorld,
                   tasks>>

----------------------------------------------------------------------------
(* Cycle-Proposal Linker *)

\* proposal_service.proposal_by_id: the position of the Proposal, 0 standing
\* for the LookupError of a proposal that is not in the store
proposal_by_id(store, proposal_id) ==
    ProposalFindOne(store, str(proposal_id))

\* a faulty loop: the cycle name is set as the only cycle of the proposal
RECURSIVE LinkLoop_Set(_, _, _, _, _)
LinkLoop_Set(store, cycle_name, proposal_list, k, now) ==
    IF k > Len(proposal_list) THEN [store |-> store, warnings |-> <<>>]
    ELSE LET proposal_id == proposal_list[k]
             i == proposal_by_id(store, int(proposal_id))
         IN IF i = 0
            THEN LET rest == LinkLoop_Set(store, cycle_name, proposal_list,
                                          k + 1, now)
                 IN [rest EXCEPT !.warnings = <<proposal_id>> \o @]
            ELSE LET proposal == [store[i] EXCEPT !.cycles = <<cycle_name>>,
                                                  !.last_updated = now]
                 IN LinkLoop_Set([store EXCEPT ![i] = proposal], cycle_name,
                                 proposal_list, k + 1, now)

\* lines 264-273 for the proposal ids from position k on: the store
\* afterwards and the ids a warning was logged for.  update with AddToSet
\* refreshes the in-memory document from the store, save writes it back.
RECURSIVE LinkLoop(_, _, _, _, _)
LinkLoop(store, cycle_name, proposal_list, k, now) ==
    IF k > Len(proposal_list) THEN [store |-> store, warnings |-> <<>>]
    ELSE LET proposal_id == proposal_list[k]
             i == proposal_by_id(store, int(proposal_id))
         IN IF i = 0
            THEN LET rest == LinkLoop(store, cycle_name, proposal_list,
                                      k + 1, now)
                 IN [rest EXCEPT !.warnings = <<proposal_id>> \o @]
            ELSE LET added == [store EXCEPT ![i].cycles =
                                  AddToSet(@, cycle_name)]
                     proposal == [added[i] EXCEPT !.last_updated = now]
                     saved == [added EXCEPT ![i] = proposal]
                 IN LinkLoop(saved, cycle_name, proposal_list, k + 1, now)

\* a faulty Linker without the except of line 272: the LookupError of the
\* first proposal that is not stored ends the run
update_proposals_with_cycle_Raise(cycle_name, proposal_list) ==
    /\ clock < MaxClock
    /\ clock' = clock + 1
    /\ LET missing == {k \in DOMAIN proposal_list :
                          proposal_by_id(proposalStore,
                                         int(proposal_list[k])) = 0}
           stop == IF missing = {} THEN Len(proposal_list) + 1
                   ELSE CHOOSE k \in missing : \A j \in missing : k <= j
           run == LinkLoop(proposalStore, cycle_name,
                           SubSeq(proposal_list, 1, stop - 1), 1, clock + 1)
       IN /\ proposalStore' = run.store
          /\ last' = [op |-> "update_proposals_with_cycle",
                      cycle_name |-> cycle_name,
                      proposal_list |-> proposal_list,
                      warnings |-> <<>>,
                      outcome |-> IF missing = {} THEN "ok" ELSE "raised"]
    /\ UNCHANGED <<cycleStore, jobs, cycleWorld, proposalWorld, typeWorld,
                   tasks>>

\* update_proposals_with_cycle, proposal_list being what
\* proposal_service.fetch_proposals_for_cycle(cycle_name) returns
update_proposals_with_cycle(cycle_name, proposal_list) ==
    /\ clock < MaxClock
    /\ clock' = clock + 1
    /\ LET run == LinkLoop(proposalStore, cycle_name, proposal_list, 1,
                           clock + 1)
       IN /\ proposalStore' = run.store
          /\ last' = [op |-> "update_proposals_with_cycle",
                      cycle_name |-> cycle_name,
                      proposal_list |-> proposal_list,
                      warnings |-> run.warnings,
                      outcome |-> "ok"]
    /\ UNCHANGED <<cycleStore, jobs, cycleWorld, proposalWorld, typeWorld,
                   tasks>>

\* what the update operator stores for a Cycle document given as a value:
\* the encoded document, written here by the name it holds.  It is the name
\* of no cycle.
CycleDump ==
    ("2024-1" :> "Cycle(name=2024-1)" @@ "2024-2" :> "Cycle(name=2024-2)")

Encode(cycle_document) == CycleDump[cycle_document.name]

\* lines 327-333: Cycle.find(...).to_list(), as positions in store order
FindCycles(store, facility, cycle) ==
    IF cycle # NoneStr
    THEN SelectSeq([i \in DOMAIN store |-> i],
                   LAMBDA i : /\ store[i].name = cycle
                              /\ store[i].facility = facility)
    ELSE SelectSeq([i \in DOMAIN store |-> i],
                   LAMBDA i : store[i].facility = facility)

\* lines 335-340 for the found cycles from position k on: line 340 hands
\* the Linker individual_cycle, the Cycle document, where the Linker takes
\* a cycle name.  fetched[name] is what fetch_proposals_for_cycle returns
\* for the document of that name.  The result is the Proposal store and the
\* Linker calls made.
RECURSIVE MappingLoop(_, _, _, _, _, _)
MappingLoop(store, cycle_store, cycles, fetched, k, now) ==
    IF k > Len(cycles) THEN [store |-> store, calls |-> <<>>]
    ELSE LET individual_cycle == cycle_store[cycles[k]]
             proposal_list == fetched[individual_cycle.name]
             run == LinkLoop(store, Encode(individual_cycle), proposal_list,
                             1, now)
             rest == MappingLoop(run.store, cycle_store, cycles, fetched,
                                 k + 1, now)
         IN [rest EXCEPT !.calls =
                <<[target |-> individual_cycle.name,
                   proposal_list |-> proposal_list,
                   warnings |-> run.warnings]>> \o @]

\* worker_update_proposal_to_cycle_mapping with sync_source PASS
worker_update_proposal_to_cycle_mapping(facility, cycle, fetched) ==
    /\ clock < MaxClock
    /\ clock' = clock + 1
    /\ LET cycles == FindCycles(cycleStore, facility, cycle)
           run == MappingLoop(proposalStore, cycleStore, cycles, fetched, 1,
                              clock + 1)
       IN /\ proposalStore' = run.store
          /\ last' = [op |-> "update_proposal_to_cycle_mapping",
                      facility |-> facility, cycle |-> cycle,
                      calls |-> run.calls, outcome |-> "ok"]
    /\ UNCHANGED <<cycleStore, jobs, cycleWorld, proposalWorld, typeWorld,
                   tasks>>

\* the environment: PASS changes the title of a proposal
PassTitleChange ==
    /\ \E p \in ProposalIds, t \in Titles :
          /\ t # passProposal[p].Title
          /\ passProposal' = [passProposal EXCEPT ![p].Title = t]
    /\ last' = [op |-> "pass_changes"]
    /\ UNCHANGED <<cycleStore, proposalStore, jobs, clock, cycleWorld,
                   passSafs, peopleDown, typeWorld, tasks>>

----------------------------------------------------------------------------
(* The Linker as a job of its own: each await of lines 267-271 is a step, *)
(* between which other jobs may run                                       *)

\* the one Linker job under way
LinkerTask == tasks[1]

\* a Linker job starts on the list that fetch_proposals_for_cycle returns
LinkerStart(cycle_name, proposal_list) ==
    /\ tasks = <<>>
    /\ clock < MaxClock
    /\ clock' = clock + 1
    /\ tasks' = <<[pc |-> "find", cycle_name |-> cycle_name,
                   proposal_list |-> proposal_list, k |-> 1, id |-> 0,
                   proposal |-> None, at_update |-> None]>>
    /\ last' = [op |-> "linker_start"]
    /\ UNCHANGED <<cycleStore, proposalStore, jobs, cycleWorld,
                   proposalWorld, typeWorld>>

\* line 268: proposal_by_id reads the Proposal into memory; a LookupError
\* is logged (line 273) and the loop goes on
LinkerFind ==
    /\ tasks # <<>> /\ LinkerTask.pc = "find"
    /\ LinkerTask.k <= Len(LinkerTask.proposal_list)
    /\ LET i == proposal_by_id(proposalStore,
                               int(LinkerTask.proposal_list[LinkerTask.k]))
       IN tasks' = IF i = 0
                   THEN <<[LinkerTask EXCEPT !.k = @ + 1]>>
                   ELSE <<[LinkerTask EXCEPT !.pc = "update", !.id = i,
                                             !.proposal = proposalStore[i]]>>
    /\ last' = [op |-> "linker_find"]
    /\ UNCHANGED <<cycleStore, proposalStore, jobs, clock, cycleWorld,
                   proposalWorld, typeWorld>>

\* a faulty update that does not refresh the document in memory
LinkerUpdate_NoRefresh ==
    /\ tasks # <<>> /\ LinkerTask.pc = "update"
    /\ LET i == LinkerTask.id
           added == [proposalStore EXCEPT ![i].cycles =
                        AddToSet(@, LinkerTask.cycle_name)]
       IN /\ proposalStore' = added
          /\ tasks' = <<[LinkerTask EXCEPT !.pc = "save",
                                           !.at_update = added[i]]>>
          /\ last' = [op |-> "linker_update", before |-> proposalStore[i],
                      id |-> i]
    /\ UNCHANGED <<cycleStore, jobs, clock, cycleWorld, proposalWorld,
                   typeWorld>>

\* line 269: update with AddToSet changes cycles in the store and refreshes
\* the document in memory from the store; at_update keeps the stored
\* document of that moment
LinkerUpdate ==
    /\ tasks # <<>> /\ LinkerTask.pc = "update"
    /\ LET i == LinkerTask.id
           added == [proposalStore EXCEPT ![i].cycles =
                        AddToSet(@, LinkerTask.cycle_name)]
       IN /\ proposalStore' = added
          /\ tasks' = <<[LinkerTask EXCEPT !.pc = "save",
                                           !.proposal = added[i],
                                           !.at_update = added[i]]>>
          /\ last' = [op |-> "linker_update", before |-> proposalStore[i],
                      id |-> i]
    /\ UNCHANGED <<cycleStore, jobs, clock, cycleWorld, proposalWorld,
                   typeWorld>>

\* lines 270-271: last_updated is set on the document in memory and save
\* writes that document, every field of it, to the store
LinkerSave ==
    /\ tasks # <<>> /\ LinkerTask.pc = "save"
    /\ LET i == LinkerTask.id
           proposal == [LinkerTask.proposal EXCEPT !.last_updated = clock]
       IN /\ proposalStore' = [proposalStore EXCEPT ![i] = proposal]
          /\ tasks' = <<[LinkerTask EXCEPT !.pc = "find", !.k = @ + 1,
                                           !.proposal = proposal]>>
          /\ last' = [op |-> "linker_save", before |-> proposalStore[i],
                      at_update |-> LinkerTask.at_update, id |-> i]
    /\ UNCHANGED <<cycleStore, jobs, clock, cycleWorld, proposalWorld,
                   typeWorld>>

\* the loop of line 264 is over and the Linker returns
LinkerReturn ==
    /\ tasks # <<>> /\ LinkerTask.pc = "find"
    /\ LinkerTask.k > Len(LinkerTask.proposal_list)
    /\ tasks' = <<>>
    /\ last' = [op |-> "linker_return"]
    /\ UNCHANGED <<cycleStore, proposalStore, jobs, clock, cycleWorld,
                   proposalWorld, typeWorld>>

----------------------------------------------------------------------------
(* The Cycle Reconciler as a job of its own: each await of lines 30-79 is *)
(* a step, between which other jobs may run                               *)

\* the two jobs of the interleaving
CycleJobs == {1, 2}

\* line 31: a job starts with the cycles PASS returns
CycleJobStart ==
    /\ Len(tasks) < Cardinality(CycleJobs)
    /\ clock < MaxCycleRuns
    /\ clock' = clock + 1
    /\ tasks' = Append(tasks, [pc |-> "upsert", pass_cycles |-> passCycles,
                               k |-> 1, id |-> 0, updated_cycle |-> None,
                               proposals_list |-> <<>>, n |-> 1,
                               at_update |-> None])
    /\ last' = [op |-> "cycle_job_start"]
    /\ UNCHANGED <<cycleStore, proposalStore, jobs, cycleWorld,
                   proposalWorld, typeWorld>>

\* lines 38-70: the facility is resolved and the cycle upserted; the
\* document the upsert returns is kept in memory as updated_cycle.  An
\* unresolvable facility ends the job.
CycleJobUpsert(j) ==
    /\ j \in DOMAIN tasks /\ tasks[j].pc = "upsert"
    /\ tasks[j].k <= Len(tasks[j].pass_cycles)
    /\ LET pass_cycle == tasks[j].pass_cycles[tasks[j].k]
           facility == facility_by_pass_id(pass_cycle.User_Facility_ID)
       IN IF facility = None
          THEN /\ tasks' = [tasks EXCEPT ![j].pc = "done"]
               /\ UNCHANGED cycleStore
          ELSE LET cycle == NewCycle(pass_cycle, facility)
                   id == CycleUpsertId(cycleStore, cycle)
                   upserted == CycleUpsert(cycleStore, cycle, clock)
               IN /\ cycleStore' = upserted
                  /\ tasks' = [tasks EXCEPT ![j].pc = "fetch", ![j].id = id,
                                   ![j].updated_cycle = upserted[id]]
    /\ last' = [op |-> "cycle_upsert", job |-> j]
    /\ UNCHANGED <<proposalStore, jobs, clock, cycleWorld, proposalWorld,
                   typeWorld>>

\* line 73: the proposals PASS reports as allocated to the cycle now
CycleJobFetch(j) ==
    /\ j \in DOMAIN tasks /\ tasks[j].pc = "fetch"
    /\ LET proposals_list == passAllocated[tasks[j].updated_cycle.name]
       IN tasks' = [tasks EXCEPT
                       ![j].proposals_list = proposals_list,
                       ![j].n = 1,
                       ![j].pc = IF proposals_list = <<>> THEN "upsert"
                                 ELSE "update",
                       ![j].k = IF proposals_list = <<>> THEN @ + 1 ELSE @]
    /\ last' = [op |-> "cycle_fetch", job |-> j]
    /\ UNCHANGED <<cycleStore, proposalStore, jobs, clock, cycleWorld,
                   proposalWorld, typeWorld>>

\* a faulty update that does not refresh the document in memory
CycleJobUpdate_NoRefresh(j) ==
    /\ j \in DOMAIN tasks /\ tasks[j].pc = "update"
    /\ LET i == tasks[j].id
           added == [cycleStore EXCEPT ![i].proposals =
                        AddToSet(@, str(tasks[j].proposals_list[tasks[j].n]))]
       IN /\ cycleStore' = added
          /\ tasks' = [tasks EXCEPT ![j].pc = "save",
                                    ![j].at_update = added[i]]
          /\ last' = [op |-> "cycle_update", job |-> j, id |-> i,
                      before |-> cycleStore[i]]
    /\ UNCHANGED <<proposalStore, jobs, clock, cycleWorld, proposalWorld,
                   typeWorld>>

\* lines 75-77: update with AddToSet changes proposals in the store and
\* refreshes updated_cycle from the store; at_update keeps the stored
\* document of that moment
CycleJobUpdate(j) ==
    /\ j \in DOMAIN tasks /\ tasks[j].pc = "update"
    /\ LET i == tasks[j].id
           added == [cycleStore EXCEPT ![i].proposals =
                        AddToSet(@, str(tasks[j].proposals_list[tasks[j].n]))]
       IN /\ cycleStore' = added
          /\ tasks' = [tasks EXCEPT ![j].pc = "save",
                                    ![j].updated_cycle = added[i],
                                    ![j].at_update = added[i]]
          /\ last' = [op |-> "cycle_update", job |-> j, id |-> i,
                      before |-> cycleStore[i]]
    /\ UNCHANGED <<proposalStore, jobs, clock, cycleWorld, proposalWorld,
                   typeWorld>>

\* lines 78-79: last_updated is set on updated_cycle and save writes that
\* document, every field of it, to the store
CycleJobSave(j) ==
    /\ j \in DOMAIN tasks /\ tasks[j].pc = "save"
    /\ LET i == tasks[j].id
           updated_cycle == [tasks[j].updated_cycle
                                EXCEPT !.last_updated = clock]
           more == tasks[j].n < Len(tasks[j].proposals_list)
       IN /\ cycleStore' = [cycleStore EXCEPT ![i] = updated_cycle]
          /\ tasks' = [tasks EXCEPT
                           ![j].updated_cycle = updated_cycle,
                           ![j].n = @ + 1,
                           ![j].pc = IF more THEN "update" ELSE "upsert",
                           ![j].k = IF more THEN @ ELSE @ + 1]
          /\ last' = [op |-> "cycle_save", job |-> j, id |-> i,
                      before |-> cycleStore[i],
                      at_update |-> tasks[j].at_update]
    /\ UNCHANGED <<proposalStore, jobs, clock, cycleWorld, proposalWorld,
                   typeWorld>>

\* the loop of line 37 is over and the job ends
CycleJobReturn(j) ==
    /\ j \in DOMAIN tasks /\ tasks[j].pc = "upsert"
    /\ tasks[j].k > Len(tasks[j].pass_cycles)
    /\ tasks' = [tasks EXCEPT ![j].pc = "done"]
    /\ last' = [op |-> "cycle_job_return", job |-> j]
    /\ UNCHANGED <<cycleStore, proposalStore, jobs, clock, cycleWorld,
                   proposalWorld, typeWorld>>

\* the environment: PASS reports another list as allocated to one of its
\* cycles
PassAllocationChange ==
    /\ \E k \in DOMAIN passCycles, l \in AllocationLists :
          /\ l # passAllocated[passCycles[k].Name]
          /\ passAllocated' = [passAllocated EXCEPT ![passCycles[k].Name] = l]
    /\ last' = [op |-> "pass_changes"]
    /\ UNCHANGED <<cycleStore, proposalStore, jobs, clock, passCycles,
                   proposalWorld, typeWorld, tasks>>

----------------------------------------------------------------------------
(* The proposals-for-cycle workflow *)

\* facility_service.cycle_year: the year of a cycle
cycle_year(cycle) == ("2024-1" :> "2024" @@ "2024-2" :> "2024")[cycle]

\* a faulty loop: a reconciliation that raises is passed over
RECURSIVE ReconcileLoop_Continue(_, _, _, _)
ReconcileLoop_Continue(store, proposal_ids, k, now) ==
    IF k > Len(proposal_ids)
    THEN [store |-> store, trace |-> <<>>, raised |-> 0]
    ELSE LET proposal_id == proposal_ids[k]
             run == synchronize_proposal_from_pass(store, proposal_id,
                                                   FALSE, now)
             step == [step |-> "reconcile", proposal_id |-> proposal_id,
                      raised |-> run.raised]
             rest == ReconcileLoop_Continue(run.store, proposal_ids,
                                            k + 1, now)
         IN [rest EXCEPT !.trace = <<step>> \o @]

\* lines 295-297 and 305-307 for the proposal ids from position k on: the
\* store, the calls made in order and the line of
\* synchronize_proposal_from_pass that raised, 0 if none.  No try surrounds
\* the call, so the first raise ends the loop and the job.
RECURSIVE ReconcileLoop(_, _, _, _)
ReconcileLoop(store, proposal_ids, k, now) ==
    IF k > Len(proposal_ids)
    THEN [store |-> store, trace |-> <<>>, raised |-> 0]
    ELSE LET proposal_id == proposal_ids[k]
             run == synchronize_proposal_from_pass(store, proposal_id,
                                                   FALSE, now)
             step == [step |-> "reconcile", proposal_id |-> proposal_id,
                      raised |-> run.raised]
         IN IF run.raised # 0
            THEN [store |-> store, trace |-> <<step>>,
                  raised |-> run.raised]
            ELSE LET rest == ReconcileLoop(run.store, proposal_ids, k + 1,
                                           now)
                 IN [rest EXCEPT !.trace = <<step>> \o @]

\* worker_synchronize_proposals_for_cycle_from_pass.  proposals is what
\* fetch_proposals_for_cycle(cycle) returns, commissioning_proposals the
\* Proposal_IDs of what PASS returns for the year of the cycle.
worker_synchronize_proposals_for_cycle_from_pass(cycle, proposals, commissioning_proposals) ==
    /\ clock < MaxWorkflowRuns
    /\ clock' = clock + 1
    /\ LET now == clock + 1
           year == cycle_year(cycle)
           first == ReconcileLoop(proposalStore,
                                  [k \in DOMAIN proposals |->
                                      int(proposals[k])],
                                  1, now)
           second == IF first.raised # 0
                     THEN [store |-> first.store, trace |-> <<>>,
                           raised |-> first.raised]
                     ELSE ReconcileLoop(first.store, commissioning_proposals,
                                        1, now)
           linked == IF second.raised # 0
                     THEN [store |-> second.store, warnings |-> <<>>]
                     ELSE LinkLoop(second.store, cycle, proposals, 1, now)
       IN /\ proposalStore' = linked.store
          /\ last' = [op |-> "synchronize_proposals_for_cycle",
                      cycle |-> cycle, proposals |-> proposals,
                      commissioning_proposals |-> commissioning_proposals,
                      trace |-> first.trace \o second.trace
                                \o IF second.raised # 0 THEN <<>>
                                   ELSE <<[step |-> "link",
                                           cycle_name |-> cycle]>>,
                      outcome |-> IF second.raised # 0 THEN "raised"
                                  ELSE "ok"]
    /\ UNCHANGED <<cycleStore, jobs, cycleWorld, proposalWorld, typeWorld,
                   tasks>>

----------------------------------------------------------------------------
(* The PASS proposals of the model *)

\* experimenters as PASS lists them, and the PI record of the first of them
Ann == [First_Name |-> "Ann", Last_Name |-> "Lee", Email |-> "ann@x",
        BNL_ID |-> "a1"]

Bob == [First_Name |-> "Bob", Last_Name |-> "Ray", Email |-> "bob@x",
        BNL_ID |-> "b2"]

Experimenters == {Ann, Bob}

PIs == {[First_Name |-> "Ann", Last_Name |-> "Lee", Email |-> "lee@bnl",
         BNL_ID |-> "A1"]}

PassProposalRecord(proposal_id, title, resources, experimenters, pi) ==
    [Proposal_ID |-> proposal_id, Title |-> title,
     Proposal_Type_ID |-> 300005,
     Proposal_Type_Description |-> "Commissioning",
     Resources |-> resources, Experimenters |-> experimenters, PI |-> pi]

ResourceLists == SeqsUpTo({[ID |-> r] : r \in PassResourceIds}, MaxResources)

PassSafRecords ==
    {[SAF_ID |-> 501, Status |-> "APPROVED", Resources |-> r] :
        r \in ResourceLists}

MixedResources == <<[ID |-> 10], [ID |-> 99]>>

MixedSaf == [SAF_ID |-> 501, Status |-> "APPROVED",
             Resources |-> <<[ID |-> 99], [ID |-> 11]>>]

----------------------------------------------------------------------------
(* Job Dispatcher and job endpoints *)

\* the ObjectIds of the model, written as the strings of their hex digits,
\* and the strings a client may send as job_id; "42" is no ObjectId
ObjectIds == {"65f000000000000000000001", "65f000000000000000000002"}

JobIdStrings == ObjectIds \cup {"42"}

InvalidId == "InvalidId"

\* bson.ObjectId(job_id): the ObjectId, or InvalidId raised for a string
\* that does not spell one
bson_ObjectId(job_id) ==
    IF job_id \in ObjectIds THEN job_id ELSE InvalidId

JobActions == {"synchronize_proposal", "synchronize_proposal_types",
               "synchronize_proposals_for_cycle", "synchronize_cycles",
               "update_cycle_information"}

\* background_service.create_background_job: a new job, Pending
create_background_job(action) ==
    /\ \E o \in ObjectIds :
          /\ jobs[o] = None
          /\ jobs' = [jobs EXCEPT ![o] =
                         [action |-> action, processing_status |-> "pending",
                          raised |-> FALSE, history |-> <<"pending">>]]
          /\ last' = [op |-> "create_background_job", id |-> o]
    /\ UNCHANGED <<cycleStore, proposalStore, clock, cycleWorld,
                   proposalWorld, typeWorld, tasks>>

\* the five endpoints that create a job
sync_proposal == create_background_job("synchronize_proposal")

sync_proposal_types == create_background_job("synchronize_proposal_types")

sync_proposals_for_cycle ==
    create_background_job("synchronize_proposals_for_cycle")

sync_cycles == create_background_job("synchronize_cycles")

sync_update_cycles == create_background_job("update_cycle_information")

\* a faulty worker: it takes any job that is not Running
StartJob_Any ==
    /\ \E o \in ObjectIds :
          /\ jobs[o] # None
          /\ jobs[o].processing_status # "running"
          /\ jobs' = [jobs EXCEPT ![o].processing_status = "running",
                                  ![o].history = Append(@, "running")]
          /\ last' = [op |-> "start_job", id |-> o]
    /\ UNCHANGED <<cycleStore, proposalStore, clock, cycleWorld,
                   proposalWorld, typeWorld, tasks>>

\* the dispatcher takes a Pending job and starts its workflow
StartJob ==
    /\ \E o \in ObjectIds :
          /\ jobs[o] # None
          /\ jobs[o].processing_status = "pending"
          /\ jobs' = [jobs EXCEPT ![o].processing_status = "running",
                                  ![o].history = Append(@, "running")]
          /\ last' = [op |-> "start_job", id |-> o]
    /\ UNCHANGED <<cycleStore, proposalStore, clock, cycleWorld,
                   proposalWorld, typeWorld, tasks>>

\* the workflow of a Running job returns, or raises
FinishJob ==
    /\ \E o \in ObjectIds, raises \in BOOLEAN :
          /\ jobs[o] # None
          /\ jobs[o].processing_status = "running"
          /\ LET status == IF raises THEN "failed" ELSE "succeeded"
             IN jobs' = [jobs EXCEPT ![o].processing_status = status,
                                    ![o].raised = raises,
                                    ![o].history = Append(@, status)]
          /\ last' = [op |-> "finish_job", id |-> o]
    /\ UNCHANGED <<cycleStore, proposalStore, clock, cycleWorld,
                   proposalWorld, typeWorld, tasks>>

\* background_service.job_by_id: the job, or None
job_by_id(id) == jobs[id]

\* check_job_status: line 30 converts the string first, and raises on a
\* string that is no ObjectId; FastAPI answers an unhandled exception
\* with status 500
check_job_status(job_id) ==
    /\ LET id == bson_ObjectId(job_id)
       IN last' = [op |-> "check_job_status", job_id |-> job_id,
                   response |->
                      IF id = InvalidId
                      THEN [status_code |-> 500, body |-> InvalidId]
                      ELSE IF job_by_id(id) = None
                      THEN [status_code |-> 404, body |-> "not found"]
                      ELSE [status_code |-> 200,
                            body |-> job_by_id(id).processing_status]]
    /\ UNCHANGED <<cycleStore, proposalStore, jobs, clock, cycleWorld,
                   proposalWorld, typeWorld, tasks>>

----------------------------------------------------------------------------

InitStores ==
    /\ cycleStore = <<>>
    /\ proposalStore = <<>>
    /\ jobs = [o \in ObjectIds |-> None]
    /\ typeStore = <<>>
    /\ tasks = <<>>
    /\ clock = 0
    /\ last = [op |-> "init"]

InitCycles ==
    /\ InitStores
    /\ passTypes = <<>>
    /\ passCycles \in SeqsUpTo(PassCycleRecords, MaxRemoteCycles)
    /\ passAllocated \in [CycleNames -> AllocationLists]
    /\ passProposal = [p \in ProposalIds |-> None]
    /\ passSafs = [p \in ProposalIds |-> <<>>]
    /\ peopleDown = {}

NextCycles ==
    \/ \E f \in FacilityNames, e \in BOOLEAN :
          worker_synchronize_cycles_from_pass(f, e)
    \/ PassCyclesChange
    \/ PassDeallocates

SpecCycles == InitCycles /\ [][NextCycles]_vars

\* The Proposal Type Reconciler starts on an empty store; PASS holds any
\* list of proposal types.
InitTypes ==
    /\ InitStores
    /\ passTypes \in SeqsUpTo(PassTypeRecords, MaxRemoteTypes)
    /\ passCycles = <<>>
    /\ passAllocated = [c \in CycleNames |-> <<>>]
    /\ passProposal = [p \in ProposalIds |-> None]
    /\ passSafs = [p \in ProposalIds |-> <<>>]
    /\ peopleDown = {}

NextTypes ==
    \E f \in FacilityNames, e \in BOOLEAN :
        worker_synchronize_proposal_types_from_pass(f, e)

SpecTypes == InitTypes /\ [][NextTypes]_vars

\* The Cycle Reconciler and the Proposal Type Reconciler start on empty
\* stores; PASS holds any list of cycles and no type, or any list of types
\* and no cycle, and may come to hold none of either.
InitReconcilers ==
    /\ InitStores
    /\ \/ /\ passCycles \in SeqsUpTo(PassCycleRecords, MaxRemoteCycles)
          /\ passTypes = <<>>
       \/ /\ passCycles = <<>>
          /\ passTypes \in SeqsUpTo(PassTypeRecords, MaxRemoteTypes)
    /\ passAllocated = [c \in CycleNames |-> <<>>]
    /\ passProposal = [p \in ProposalIds |-> None]
    /\ passSafs = [p \in ProposalIds |-> <<>>]
    /\ peopleDown = {}

NextReconcilers ==
    \/ \E f \in FacilityNames, e \in BOOLEAN :
          worker_synchronize_cycles_from_pass(f, e)
    \/ \E f \in FacilityNames, e \in BOOLEAN :
          worker_synchronize_proposal_types_from_pass(f, e)
    \/ PassEmpties

SpecReconcilers == InitReconcilers /\ [][NextReconcilers]_vars

\* The Proposal Reconciler starts on an empty store.  PASS holds either any
\* resources and SAFs, with a PI who is no experimenter and the people
\* service up, or any PI, experimenters and people service failure, with
\* resources and a SAF of which some resolve and some do not.
InitProposals ==
    /\ InitStores
    /\ passTypes = <<>>
    /\ passCycles = <<>>
    /\ passAllocated = [c \in CycleNames |-> <<>>]
    /\ \/ /\ \E r \in ResourceLists, pi \in PIs :
                passProposal = [p \in ProposalIds |->
                                   PassProposalRecord(p, "T1", r, <<Bob>>, pi)]
          /\ \E l \in SeqsUpTo(PassSafRecords, MaxSafs) :
                passSafs = [p \in ProposalIds |-> l]
          /\ peopleDown = {}
       \/ /\ \E e \in SeqsUpTo(Experimenters, MaxExperimenters),
                pi \in PIs \cup {None} :
                passProposal = [p \in ProposalIds |->
                                   PassProposalRecord(p, "T1", MixedResources,
                                                      e, pi)]
          /\ passSafs = [p \in ProposalIds |-> <<MixedSaf>>]
          /\ peopleDown \in {d \in SUBSET BnlIds : Cardinality(d) <= 1}

NextProposals ==
    \E p \in ProposalIds, e \in BOOLEAN :
        worker_synchronize_proposal_from_pass(p, e)

SpecProposals == InitProposals /\ [][NextProposals]_vars

\* the job endpoints and the dispatcher, PASS holding nothing
InitJobs ==
    /\ InitStores
    /\ passTypes = <<>>
    /\ passCycles = <<>>
    /\ passAllocated = [c \in CycleNames |-> <<>>]
    /\ passProposal = [p \in ProposalIds |-> None]
    /\ passSafs = [p \in ProposalIds |-> <<>>]
    /\ peopleDown = {}

NextJobs ==
    \/ sync_proposal
    \/ sync_proposal_types
    \/ sync_proposals_for_cycle
    \/ sync_cycles
    \/ sync_update_cycles
    \/ StartJob
    \/ FinishJob
    \/ \E s \in JobIdStrings : check_job_status(s)

SpecJobs == InitJobs /\ [][NextJobs]_vars

----------------------------------------------------------------------------
(* Claims on the Cycle Reconciler, under SpecCycles *)

\* the ids in a Cycle's proposals, as a set
CycleProposals(doc) == Range(doc.proposals)

\* a Cycle document without its last_updated
CycleFields(doc) == [doc EXCEPT !.last_updated = NoTime]

\* C1: over any sequence of Cycle Reconciler runs, no stored Cycle ever
\* loses an element of its proposals, whatever PASS reports as allocated in
\* the later runs.
C1_CycleProposalsNeverShrink ==
    [][\A i \in DOMAIN cycleStore :
          /\ i \in DOMAIN cycleStore'
          /\ cycleStore'[i].name = cycleStore[i].name
          /\ CycleProposals(cycleStore[i]) \subseteq CycleProposals(cycleStore'[i])
      ]_vars

\* a run has just rewritten a Cycle that holds a proposal id which PASS no
\* longer reports as allocated to it
C1_Witness ==
    /\ last.op = "synchronize_cycles"
    /\ last.outcome = "ok"
    /\ \E i \in DOMAIN cycleStore :
          /\ cycleStore[i].last_updated = clock
          /\ \E p \in CycleProposals(cycleStore[i]) :
                int(p) \notin Range(passAllocated[cycleStore[i].name])

\* C3: a Cycle Reconciler run that directly follows another one, PASS
\* answering both and nothing having changed in between, leaves every Cycle
\* as it was but for last_updated, and adds no Cycle.
C3_CycleSyncIdempotent ==
    [][(last'.op = "synchronize_cycles" /\ clock' # clock /\ last'.repeat)
          => /\ Len(cycleStore') = Len(cycleStore)
             /\ \A i \in DOMAIN cycleStore :
                   CycleFields(cycleStore'[i]) = CycleFields(cycleStore[i])
      ]_vars

\* a second run in a row has completed over two stored Cycles, one of them
\* with proposals, which it rewrote
C3_Witness ==
    /\ last.op = "synchronize_cycles"
    /\ last.repeat
    /\ last.outcome = "ok"
    /\ Len(cycleStore) = 2
    /\ \E i \in DOMAIN cycleStore :
          /\ cycleStore[i].proposals # <<>>
          /\ cycleStore[i].last_updated = clock

\* The Linker and the Proposal Reconciler start on an empty store, PASS
\* holding for each proposal a record with a PI who is no experimenter.
InitLinker ==
    /\ InitStores
    /\ passTypes = <<>>
    /\ passCycles = <<>>
    /\ passAllocated = [c \in CycleNames |-> <<>>]
    /\ passProposal = [p \in ProposalIds |->
                          PassProposalRecord(p, "T1", MixedResources, <<Bob>>,
                                             CHOOSE pi \in PIs : TRUE)]
    /\ passSafs = [p \in ProposalIds |-> <<MixedSaf>>]
    /\ peopleDown = {}

NextLinker ==
    \/ \E p \in ProposalIds, e \in BOOLEAN :
          worker_synchronize_proposal_from_pass(p, e)
    \/ \E c \in CycleNames, l \in SeqsUpTo(ProposalIdStrs, MaxLinked) :
          update_proposals_with_cycle(c, l)
    \/ PassTitleChange

SpecLinker == InitLinker /\ [][NextLinker]_vars

\* The facility cycle-information workflow runs beside both reconcilers.
\* PASS holds each cycle name at most once, in the order of the names, each
\* of a known facility.
InitMapping ==
    /\ InitStores
    /\ passTypes = <<>>
    /\ passCycles \in {l \in SeqsUpTo(PassCycleRecords, MaxRemoteCycles) :
                          /\ Unresolvable(l) = {}
                          /\ \A i, j \in DOMAIN l :
                                i < j => l[i].ID < l[j].ID}
    /\ passAllocated = [c \in CycleNames |-> <<>>]
    /\ passProposal = [p \in ProposalIds |->
                          PassProposalRecord(p, "T1", MixedResources, <<Bob>>,
                                             CHOOSE pi \in PIs : TRUE)]
    /\ passSafs = [p \in ProposalIds |-> <<MixedSaf>>]
    /\ peopleDown = {}

NextMapping ==
    \/ \E f \in FacilityNames, e \in BOOLEAN :
          worker_synchronize_cycles_from_pass(f, e)
    \/ \E p \in ProposalIds : worker_synchronize_proposal_from_pass(p, FALSE)
    \/ \E f \in FacilityNames, c \in CycleNames \cup {NoneStr},
          l \in [CycleNames -> SeqsUpTo(ProposalIdStrs, MaxMapped)] :
          worker_update_proposal_to_cycle_mapping(f, c, l)

SpecMapping == InitMapping /\ [][NextMapping]_vars

\* The proposals-for-cycle workflow starts on an empty Proposal store.
\* PASS holds some of the proposals and not the others.
InitWorkflow ==
    /\ InitStores
    /\ passTypes = <<>>
    /\ passCycles = <<>>
    /\ passAllocated = [c \in CycleNames |-> <<>>]
    /\ \E held \in SUBSET ProposalIds :
          passProposal = [p \in ProposalIds |->
                             IF p \in held
                             THEN PassProposalRecord(p, "T1", <<>>, <<>>,
                                                     CHOOSE pi \in PIs : TRUE)
                             ELSE None]
    /\ passSafs = [p \in ProposalIds |-> <<>>]
    /\ peopleDown = {}

NextWorkflow ==
    \E c \in CycleNames, l \in SeqsUpTo(ProposalIdStrs, MaxLinked),
       m \in SeqsUpTo(ProposalIds, MaxCommissioning) :
       worker_synchronize_proposals_for_cycle_from_pass(c, l, m)

SpecWorkflow == InitWorkflow /\ [][NextWorkflow]_vars

\* A Linker job runs step by step beside the Proposal Reconciler, whose
\* only access to the store is its upsert, while PASS changes titles.
InitLinkerRace == InitLinker

NextLinkerRace ==
    \/ \E p \in ProposalIds : worker_synchronize_proposal_from_pass(p, FALSE)
    \/ PassTitleChange
    \/ \E c \in CycleNames, l \in SeqsUpTo(ProposalIdStrs, MaxRaceList) :
          LinkerStart(c, l)
    \/ LinkerFind
    \/ LinkerUpdate
    \/ LinkerSave
    \/ LinkerReturn

SpecLinkerRace == InitLinkerRace /\ [][NextLinkerRace]_vars

\* Two Cycle Reconciler jobs run step by step on the one cycle PASS holds,
\* of a known facility, while PASS changes what is allocated to it.
InitCycleRace ==
    /\ InitStores
    /\ passTypes = <<>>
    /\ \E r \in PassCycleRecords :
          /\ Unresolvable(<<r>>) = {}
          /\ passCycles = <<r>>
          /\ \E l \in AllocationLists :
                passAllocated = [c \in CycleNames |->
                                    IF c = r.Name THEN l ELSE <<>>]
    /\ passProposal = [p \in ProposalIds |-> None]
    /\ passSafs = [p \in ProposalIds |-> <<>>]
    /\ peopleDown = {}

NextCycleRace ==
    \/ CycleJobStart
    \/ \E j \in CycleJobs : CycleJobUpsert(j)
    \/ \E j \in CycleJobs : CycleJobFetch(j)
    \/ \E j \in CycleJobs : CycleJobUpdate(j)
    \/ \E j \in CycleJobs : CycleJobSave(j)
    \/ \E j \in CycleJobs : CycleJobReturn(j)
    \/ PassAllocationChange

SpecCycleRace == InitCycleRace /\ [][NextCycleRace]_vars

----------------------------------------------------------------------------
(* Claims on the Proposal Reconciler, under SpecProposals *)

\* the stored Proposal of an id that is in the store
StoredProposal(proposal_id) ==
    proposalStore[ProposalFindOne(proposalStore, str(proposal_id))]

\* the last operation was a Proposal Reconciler run that upserted
Reconciled ==
    last.op = "synchronize_proposal" /\ last.outcome = "ok"

\* the PASS record and the stored users of the proposal just reconciled
LastPass == passProposal[last.proposal_id]
LastUsers == StoredProposal(last.proposal_id).users

PiEntries(users) == {i \in DOMAIN users : users[i].is_pi}

\* the experimenters whose person id is the PI's, case-insensitively
PiMatches(pass_proposal) ==
    {k \in DOMAIN pass_proposal.Experimenters :
        casefold(pass_proposal.Experimenters[k].BNL_ID)
            = casefold(pass_proposal.PI.BNL_ID)}

\* C4 as stated: whenever PASS names a PI, the stored user list has exactly
\* one entry marked PI.
C4_ExactlyOnePI ==
    (Reconciled /\ LastPass.PI # None)
        => Cardinality(PiEntries(LastUsers)) = 1

\* C4 amended: whenever PASS names a PI, the stored user list has one entry
\* marked PI per experimenter whose person id matches the PI's, and one
\* entry marked PI if none matches; so exactly one if at most one
\* experimenter matches.
C4_OnePIPerMatch ==
    (Reconciled /\ LastPass.PI # None)
        => /\ Cardinality(PiEntries(LastUsers))
                = IF PiMatches(LastPass) = {} THEN 1
                  ELSE Cardinality(PiMatches(LastPass))
           /\ Cardinality(PiMatches(LastPass)) <= 1
                => Cardinality(PiEntries(LastUsers)) = 1

\* a run stored the users of a proposal whose PI is one of two experimenters
C4_Witness ==
    /\ Reconciled
    /\ LastPass.PI # None
    /\ Len(LastPass.Experimenters) = 2
    /\ Cardinality(PiMatches(LastPass)) = 1
    /\ Cardinality(PiEntries(LastUsers)) = 1

\* C5: when PASS names a PI whose person id matches no experimenter, the
\* stored user list is one entry per experimenter, in order and none marked
\* PI, followed by one entry with the PI's fields, marked PI.
C5_PIAppended ==
    (Reconciled /\ LastPass.PI # None /\ PiMatches(LastPass) = {})
        => LET n == Len(LastPass.Experimenters) IN
           /\ Len(LastUsers) = n + 1
           /\ \A k \in 1..n :
                 /\ LastUsers[k].bnl_id = LastPass.Experimenters[k].BNL_ID
                 /\ LastUsers[k].first_name = LastPass.Experimenters[k].First_Name
                 /\ LastUsers[k].last_name = LastPass.Experimenters[k].Last_Name
                 /\ LastUsers[k].email = LastPass.Experimenters[k].Email
                 /\ ~LastUsers[k].is_pi
           /\ LastUsers[n + 1].is_pi
           /\ LastUsers[n + 1].bnl_id = LastPass.PI.BNL_ID
           /\ LastUsers[n + 1].first_name = LastPass.PI.First_Name
           /\ LastUsers[n + 1].last_name = LastPass.PI.Last_Name
           /\ LastUsers[n + 1].email = LastPass.PI.Email

\* a run stored the users of a proposal with two experimenters, none the PI
C5_Witness ==
    /\ Reconciled
    /\ LastPass.PI # None
    /\ PiMatches(LastPass) = {}
    /\ Len(LastPass.Experimenters) = 2
    /\ Len(LastUsers) = 3

\* C6 as stated: when PASS hands the proposal over, a failed username lookup
\* never aborts the run: the proposal is upserted, and every user whose
\* lookup failed is stored with username None.
C6_LookupFailureNeverAborts ==
    (last.op = "synchronize_proposal" /\ last.raised # 167)
        => /\ last.outcome = "ok"
           /\ \A k \in DOMAIN LastUsers :
                 LastUsers[k].bnl_id \in peopleDown
                    => LastUsers[k].username = NoneStr

\* the names of the beamlines that the resources resolve to, in order
ResolvableNames(resources) ==
    LET known == SelectSeq(resources, LAMBDA r : r.ID \in DOMAIN Beamlines)
    IN [k \in DOMAIN known |-> Beamlines[known[k].ID].name]

HasUnresolvable(resources) ==
    \E k \in DOMAIN resources : resources[k].ID \notin DOMAIN Beamlines

\* C7: a resource that resolves to no beamline is skipped without error.
\* A run raises only when PASS hands over no proposal or the PI's username
\* lookup fails; otherwise the proposal is upserted with the names of its
\* resolvable resources as instruments and with one safety form per PASS
\* SAF, in order, each with the names of its resolvable resources.
C7_UnknownResourceSkipped ==
    last.op = "synchronize_proposal"
        => /\ last.outcome = "raised"
                => \/ last.raised = 167
                   \/ /\ LastPass.PI # None
                      /\ PiMatches(LastPass) = {}
                      /\ LastPass.PI.BNL_ID \in peopleDown
           /\ last.outcome = "ok"
                => LET stored == StoredProposal(last.proposal_id)
                       safs == passSafs[last.proposal_id]
                   IN /\ stored.instruments
                            = ResolvableNames(LastPass.Resources)
                      /\ Len(stored.safs) = Len(safs)
                      /\ \A k \in DOMAIN safs :
                            /\ stored.safs[k].saf_id = str(safs[k].SAF_ID)
                            /\ stored.safs[k].instruments
                                  = ResolvableNames(safs[k].Resources)

\* a run upserted a proposal with an unresolvable resource before a
\* resolvable one, and a SAF with only unresolvable resources
C7_Witness ==
    /\ Reconciled
    /\ LastPass.Resources # <<>>
    /\ LastPass.Resources[1].ID \notin DOMAIN Beamlines
    /\ StoredProposal(last.proposal_id).instruments # <<>>
    /\ \E k \in DOMAIN passSafs[last.proposal_id] :
          /\ HasUnresolvable(passSafs[last.proposal_id][k].Resources)
          /\ StoredProposal(last.proposal_id).safs[k].instruments = <<>>

\* the positions of the remote types whose facility does not resolve
UnresolvableTypes(pass_proposal_types) ==
    {k \in DOMAIN pass_proposal_types :
        facility_by_pass_id(pass_proposal_types[k].User_Facility_ID) = None}

\* C12 as stated: a Proposal Type Reconciler run that PASS answers with a
\* list holding a type whose facility does not resolve does not fail, and
\* every other type of the list, before and after that one, is in the
\* ProposalType store afterwards.
C12_UnresolvableTypeSkipped ==
    (/\ last.op = "synchronize_proposal_types" /\ ~last.pass_fails
     /\ UnresolvableTypes(passTypes) # {})
        => /\ last.outcome = "ok"
           /\ \A k \in DOMAIN passTypes \ UnresolvableTypes(passTypes) :
                 ProposalTypeFindOne(typeStore, str(passTypes[k].ID)) # 0

\* C14 as stated: when the fetch of the PASS proposal fails, get_proposal
\* surfaces a typed error (PassException) to the Proposal Reconciler, never
\* an empty record, and the run fails, at the handler of that error, with
\* the Proposal store unchanged.
C14_FailedFetchTypedError ==
    (last.op = "synchronize_proposal" /\ last.pass_fails)
        => /\ last.surfaced = "PassException"
           /\ last.raised = 149
           /\ ~last.wrote

\* C20 as stated: a run for a PASS proposal without a PI completes and
\* upserts, no stored user is marked as PI, and every experimenter of the
\* PASS proposal is among the stored users, in order, not marked as PI.
C20_NoPIKeepsExperimenters ==
    (/\ last.op = "synchronize_proposal" /\ ~last.pass_fails
     /\ LastPass.PI = None)
        => /\ last.outcome = "ok"
           /\ PiEntries(LastUsers) = {}
           /\ Len(LastUsers) = Len(LastPass.Experimenters)
           /\ \A k \in DOMAIN LastUsers :
                 /\ LastUsers[k].bnl_id = LastPass.Experimenters[k].BNL_ID
                 /\ ~LastUsers[k].is_pi

CycleNamesOf(store) == {store[i].name : i \in DOMAIN store}

\* C13: a Cycle Reconciler run that PASS answers with a list holding a cycle
\* whose facility does not resolve ends in error at the first such cycle:
\* the cycles before it are written, and neither it nor any later cycle is,
\* so that a stored Cycle of a name not met before it is untouched and no
\* Cycle of such a name is inserted.
C13_UnresolvableFacilityFatal ==
    [][(/\ last'.op = "synchronize_cycles" /\ clock' # clock
        /\ last'.at # 0
        /\ Unresolvable(passCycles) # {})
          => LET k == CHOOSE k \in Unresolvable(passCycles) :
                         \A j \in Unresolvable(passCycles) : k <= j
                 before == {passCycles[j].Name : j \in 1..(k - 1)}
             IN /\ last'.outcome = "raised"
                /\ last'.at = k
                /\ before \subseteq CycleNamesOf(cycleStore')
                /\ \A i \in DOMAIN cycleStore' :
                      cycleStore'[i].name \notin before
                         => /\ i \in DOMAIN cycleStore
                            /\ cycleStore'[i] = cycleStore[i]
      ]_vars

\* a run has ended in error at a cycle of an unknown facility, and a cycle
\* later in the list, of a known facility, is not in the store
C13_Witness ==
    /\ last.op = "synchronize_cycles"
    /\ last.outcome = "raised"
    /\ last.at \in Unresolvable(passCycles)
    /\ \E j \in DOMAIN passCycles :
          /\ j > last.at
          /\ j \notin Unresolvable(passCycles)
          /\ passCycles[j].Name \notin CycleNamesOf(cycleStore)

\* C16: a Cycle Reconciler run over a list whose facilities all resolve
\* leaves exactly one Cycle per name that was stored or is in the list, n
\* Cycles for the n distinct names of the list when the store was empty; a
\* Cycle inserted for a new name holds the proposals of that cycle's
\* allocation list and no other, none when that list is empty.
C16_OneCyclePerName ==
    [][(/\ last'.op = "synchronize_cycles" /\ clock' # clock
        /\ last'.at = Len(passCycles) + 1)
          => LET seen == {passCycles[k].Name : k \in DOMAIN passCycles}
             IN /\ \A i, j \in DOMAIN cycleStore' :
                      cycleStore'[i].name = cycleStore'[j].name => i = j
                /\ CycleNamesOf(cycleStore')
                      = CycleNamesOf(cycleStore) \cup seen
                /\ cycleStore = <<>>
                      => Len(cycleStore') = Cardinality(seen)
                /\ \A i \in DOMAIN cycleStore' :
                      cycleStore'[i].name \notin CycleNamesOf(cycleStore)
                         => CycleProposals(cycleStore'[i])
                               = {str(q) : q \in Range(
                                     passAllocated[cycleStore'[i].name])}
      ]_vars

\* the second run has gone through its list and has left two Cycles, the
\* second of them inserted by it, without proposals
C16_Witness ==
    /\ last.op = "synchronize_cycles"
    /\ last.at = Len(passCycles) + 1
    /\ clock = 2
    /\ Len(cycleStore) = 2
    /\ cycleStore[1].last_updated = 2
    /\ cycleStore[2].last_updated = NoTime
    /\ cycleStore[2].proposals = <<>>

----------------------------------------------------------------------------
(* Claims on the Linker and the Proposal Reconciler, under SpecLinker *)

ProposalCycles(doc) == Range(doc.cycles)

\* C2: over any sequence of Linker runs and Proposal Reconciler runs, no
\* stored Proposal ever loses an element of its cycles, whatever list of
\* proposals a later Linker run is given.
C2_ProposalCyclesNeverShrink ==
    [][\A i \in DOMAIN proposalStore :
          /\ i \in DOMAIN proposalStore'
          /\ proposalStore'[i].proposal_id = proposalStore[i].proposal_id
          /\ ProposalCycles(proposalStore[i])
                \subseteq ProposalCycles(proposalStore'[i])
      ]_vars

\* a Linker run for a cycle was given a list of other proposals only, while
\* a stored Proposal holds that cycle from an earlier run
C2_Witness ==
    /\ last.op = "update_proposals_with_cycle"
    /\ last.proposal_list # <<>>
    /\ \E i \in DOMAIN proposalStore :
          /\ last.cycle_name \in ProposalCycles(proposalStore[i])
          /\ proposalStore[i].proposal_id \notin Range(last.proposal_list)

\* C8: a Proposal Reconciler run leaves the cycles and the proposal id of
\* every stored Proposal as they were, and every Proposal but the one it
\* reconciles untouched: it writes title, data session, type id, type,
\* instruments, safety forms, users and last_updated only.
C8_ReconcilerKeepsCycles ==
    [][(last'.op = "synchronize_proposal" /\ clock' # clock)
          => \A i \in DOMAIN proposalStore :
                /\ i \in DOMAIN proposalStore'
                /\ proposalStore'[i].cycles = proposalStore[i].cycles
                /\ proposalStore'[i].proposal_id = proposalStore[i].proposal_id
                /\ proposalStore[i].proposal_id # str(last'.proposal_id)
                      => proposalStore'[i] = proposalStore[i]
      ]_vars

\* a run has just given a new title to a stored Proposal that has cycles
C8_Witness ==
    /\ Reconciled
    /\ last.existed
    /\ StoredProposal(last.proposal_id).cycles # <<>>
    /\ StoredProposal(last.proposal_id).last_updated = clock
    /\ StoredProposal(last.proposal_id).title = "T2"

\* C11: a Linker run whose list names a proposal that is not stored logs a
\* warning for it and for nothing else, adds the cycle name to every stored
\* Proposal of the list, before and after the missing one, and returns
\* without raising.
C11_MissingProposalSkipped ==
    [][(last'.op = "update_proposals_with_cycle" /\ clock' # clock)
          => /\ last'.outcome = "ok"
             /\ \A k \in DOMAIN last'.proposal_list :
                   (ProposalFindOne(proposalStore, last'.proposal_list[k]) = 0)
                      <=> last'.proposal_list[k] \in Range(last'.warnings)
             /\ \A i \in DOMAIN proposalStore :
                   proposalStore[i].proposal_id \in Range(last'.proposal_list)
                      => /\ i \in DOMAIN proposalStore'
                         /\ last'.cycle_name
                               \in ProposalCycles(proposalStore'[i])
      ]_vars

\* a Linker run has met a proposal that is not stored and, later in its
\* list, one that is
C11_Witness ==
    /\ last.op = "update_proposals_with_cycle"
    /\ last.outcome = "ok"
    /\ \E j, k \in DOMAIN last.proposal_list :
          /\ j < k
          /\ last.proposal_list[j] \in Range(last.warnings)
          /\ ProposalFindOne(proposalStore, last.proposal_list[k]) # 0
          /\ last.cycle_name \in ProposalCycles(
                 proposalStore[ProposalFindOne(proposalStore,
                                               last.proposal_list[k])])
          /\ proposalStore[ProposalFindOne(proposalStore,
                last.proposal_list[k])].last_updated = clock

\* C15 as stated: the facility cycle-information workflow calls the Linker
\* once for each stored Cycle of the given facility, and of the given name
\* when a cycle is given, and for no other; and after a call every stored
\* Proposal of the list that call worked on holds the name of that cycle in
\* its cycles.
C15_MappingAddsCycleName ==
    last.op = "update_proposal_to_cycle_mapping"
        => LET targets ==
                  {i \in DOMAIN cycleStore :
                      /\ cycleStore[i].facility = last.facility
                      /\ last.cycle # NoneStr
                            => cycleStore[i].name = last.cycle}
           IN /\ Len(last.calls) = Cardinality(targets)
              /\ {last.calls[k].target : k \in DOMAIN last.calls}
                    = {cycleStore[i].name : i \in targets}
              /\ \A k \in DOMAIN last.calls :
                    \A q \in Range(last.calls[k].proposal_list) :
                       ProposalFindOne(proposalStore, q) # 0
                          => last.calls[k].target \in ProposalCycles(
                                proposalStore[ProposalFindOne(proposalStore,
                                                              q)])

\* the steps of the proposals-for-cycle workflow in the order of the code
WorkflowPlan(cycle, proposals, commissioning_proposals) ==
    [k \in DOMAIN proposals |-> int(proposals[k])]
    \o commissioning_proposals

\* C19: a run of the proposals-for-cycle workflow reconciles the proposals
\* of the cycle in the order of their list, then the commissioning
\* proposals, then runs the Linker for the cycle, and ends at the first
\* reconciliation that raises, that of the first proposal PASS does not
\* hold: then no later proposal is reconciled, the
\* Linker does not run, no stored Proposal gains a cycle, and the job ends
\* in error.
C19_WorkflowInOrder ==
    [][(last'.op = "synchronize_proposals_for_cycle" /\ clock' # clock)
          => LET plan == WorkflowPlan(last'.cycle, last'.proposals,
                                      last'.commissioning_proposals)
                 fails == {k \in DOMAIN plan : passProposal[plan[k]] = None}
                 trace == last'.trace
             IN IF fails = {}
                THEN /\ last'.outcome = "ok"
                     /\ Len(trace) = Len(plan) + 1
                     /\ \A k \in DOMAIN plan :
                           /\ trace[k].step = "reconcile"
                           /\ trace[k].proposal_id = plan[k]
                           /\ ProposalFindOne(proposalStore',
                                              str(plan[k])) # 0
                     /\ trace[Len(trace)]
                           = [step |-> "link", cycle_name |-> last'.cycle]
                ELSE LET stop == CHOOSE k \in fails :
                                    \A j \in fails : k <= j
                     IN /\ last'.outcome = "raised"
                        /\ Len(trace) = stop
                        /\ \A k \in 1..stop :
                              /\ trace[k].step = "reconcile"
                              /\ trace[k].proposal_id = plan[k]
                        /\ \A p \in ProposalIds :
                              p \notin {plan[k] : k \in 1..(stop - 1)}
                                 => ProposalFindOne(proposalStore', str(p))
                                       = ProposalFindOne(proposalStore, str(p))
                        /\ \A i \in DOMAIN proposalStore :
                              proposalStore'[i].cycles = proposalStore[i].cycles
                        /\ \A i \in DOMAIN proposalStore' :
                              i \notin DOMAIN proposalStore
                                 => proposalStore'[i].cycles = <<>>
      ]_vars

\* a run has reconciled a first proposal and stored it, has ended at the
\* second one, whose fetch failed, and has left out a commissioning
\* proposal and the Linker
C19_Witness ==
    /\ last.op = "synchronize_proposals_for_cycle"
    /\ last.outcome = "raised"
    /\ Len(last.trace) = 2
    /\ last.trace[2].raised # 0
    /\ last.commissioning_proposals # <<>>
    /\ ProposalFindOne(proposalStore, str(last.trace[1].proposal_id)) # 0
    /\ StoredProposal(last.trace[1].proposal_id).cycles = <<>>
    /\ StoredProposal(last.trace[1].proposal_id).last_updated = clock

----------------------------------------------------------------------------
(* Claims on interleaved jobs *)

\* the fields of a Proposal that the Proposal Reconciler writes
ReconcilerFields(doc) ==
    [title |-> doc.title, data_session |-> doc.data_session,
     pass_type_id |-> doc.pass_type_id, type |-> doc.type,
     instruments |-> doc.instruments, safs |-> doc.safs, users |-> doc.users]

\* C17 as stated: no write of a Linker job that runs interleaved with
\* Proposal Reconciler runs, its add to cycles or its save, changes the
\* title, data session, type, instruments, safety forms or users of the
\* stored Proposal.
C17_LinkerKeepsReconcilerFields ==
    last.op \in {"linker_update", "linker_save"}
        => ReconcilerFields(proposalStore[last.id])
              = ReconcilerFields(last.before)

\* C17, amended: the Linker's add to cycles changes none of those fields,
\* and its save leaves them as they were stored at that add.
C17_SaveRestoresFieldsOfAdd ==
    /\ last.op = "linker_update"
          => ReconcilerFields(proposalStore[last.id])
                = ReconcilerFields(last.before)
    /\ last.op = "linker_save"
          => ReconcilerFields(proposalStore[last.id])
                = ReconcilerFields(last.at_update)

\* a Linker job has saved after a Proposal Reconciler run that gave the
\* Proposal a new title between the job's add and its save
C17_Witness ==
    /\ last.op = "linker_save"
    /\ last.before.title # last.at_update.title
    /\ last.before.cycles = last.at_update.cycles

\* C18 as stated: when two Cycle Reconciler jobs on the same cycle
\* interleave, no write of a job, its add to proposals or its save, removes
\* a proposal id from the stored Cycle.
C18_NoProposalRemoved ==
    last.op \in {"cycle_update", "cycle_save"}
        => CycleProposals(last.before)
              \subseteq CycleProposals(cycleStore[last.id])

\* C18, amended: an add removes no proposal id, and a save leaves the
\* proposals as they were stored at the saving job's latest add.
C18_SaveRestoresProposalsOfAdd ==
    /\ last.op = "cycle_update"
          => CycleProposals(last.before)
                \subseteq CycleProposals(cycleStore[last.id])
    /\ last.op = "cycle_save"
          => CycleProposals(cycleStore[last.id])
                = CycleProposals(last.at_update)

\* a job has saved after the other job added a proposal id between the
\* first job's add and its save
C18_Witness ==
    /\ last.op = "cycle_save"
    /\ \E q \in CycleProposals(last.before) :
          q \notin CycleProposals(last.at_update)

\* C21 as stated: a Cycle Reconciler run and a Proposal Type Reconciler run
\* that PASS answers with an empty list each end without error and leave
\* their store as it was.
C21_EmptyListCompletes ==
    [][/\ (/\ last'.op = "synchronize_cycles" /\ clock' # clock
           /\ last'.at # 0 /\ passCycles = <<>>)
             => /\ last'.outcome = "ok"
                /\ cycleStore' = cycleStore
       /\ (/\ last'.op = "synchronize_proposal_types" /\ clock' # clock
           /\ ~last'.pass_fails /\ passTypes = <<>>)
             => /\ last'.outcome = "ok"
                /\ typeStore' = typeStore
      ]_vars

----------------------------------------------------------------------------
(* Claims on the jobs, under SpecJobs *)

JobHistories ==
    {<<"pending">>, <<"pending", "running">>,
     <<"pending", "running", "succeeded">>,
     <<"pending", "running", "failed">>}

\* C9: the statuses a job has taken are a prefix of Pending, Running, then
\* Succeeded or Failed, so that a finished job changes no more; and a job
\* whose workflow raised is Failed, one whose workflow returned Succeeded.
C9_JobLifecycle ==
    \A o \in ObjectIds :
        jobs[o] # None
            => /\ jobs[o].history \in JobHistories
               /\ jobs[o].processing_status
                     = jobs[o].history[Len(jobs[o].history)]
               /\ jobs[o].raised => jobs[o].processing_status = "failed"
               /\ jobs[o].processing_status = "failed" => jobs[o].raised

\* one job has Succeeded and another, whose workflow raised, has Failed
C9_Witness ==
    \E o1, o2 \in ObjectIds :
        /\ jobs[o1] # None /\ jobs[o2] # None
        /\ jobs[o1].history = <<"pending", "running", "succeeded">>
        /\ jobs[o2].history = <<"pending", "running", "failed">>
        /\ jobs[o2].raised

\* C10 as stated: a status check for a job id that no created job has is
\* answered 404, and one for the id of a created job with that job's
\* processing status.
C10_UnknownJobNotFound ==
    last.op = "check_job_status"
        => IF \E o \in ObjectIds : o = last.job_id /\ jobs[o] # None
           THEN last.response = [status_code |-> 200,
                                 body |-> jobs[last.job_id].processing_status]
           ELSE last.response.status_code = 404

====
